---- MODULE Spec2Model ----
(***************************************************************************)
(* Model of the GAS HTTP server: the request pipeline of src/src/index.js, *)
(* the metrics middleware and scrape handler of src/src/metrics.js, the    *)
(* probes of src/src/health.js and the graceful shutdown sequence.         *)
(*                                                                         *)
(* One JavaScript turn of the event loop is one action: a synchronous      *)
(* handler runs from the first middleware to res.end in a single step, an  *)
(* asynchronous handler (GET /api/slow, GET /metrics) is split at its      *)
(* await.                                                                  *)
(***************************************************************************)
EXTENDS Integers, Sequences, FiniteSets, TLC

\* ---------------------------------------------------------------- bounds
NumConns == 2
MaxRequests == 2
MaxTriggers == 2
TickMs == 30000
MaxDays == 2

\* ------------------------------------------------------ program constants
ForceTimeoutMs == 30000

Conns == 1..NumConns

Methods == {"GET", "POST"}

\* app.get registrations the model drives: one whose handler answers in the
\* same turn, and the two asynchronous ones
SyncRoutes == {"/health/ready"}

\* the probe registrations: health check, liveness, readiness
ProbeRoutes == {"/health", "/health/live", "/health/ready"}

\* the registrations whose answer is followed to its body
AnswerRoutes == {"/", "/health", "/api/error"}

Routes == SyncRoutes \cup ProbeRoutes \cup AnswerRoutes \cup {"/metrics", "/api/slow"}

\* a path no GET route is registered for
UnknownPath == "/nonexistent"

\* the path the malformed JSON bodies are posted to
PostPath == "/api/data"

\* request paths that differ from the pattern of the route they reach
VariantPaths == {"/health/live/", "/HEALTH/LIVE", "/health/ready/"}

\* the requests followed through the route label: every spelling of the
\* probe routes, a path without a route, and a method without a route
LabelRequests ==
  ({"GET"} \X (ProbeRoutes \cup VariantPaths \cup {UnknownPath}))
    \cup ({"POST"} \X (ProbeRoutes \cup {UnknownPath}))

\* paths of the requests followed to their body
AnswerPaths == AnswerRoutes \cup {UnknownPath}

\* paths of the requests the environment sends
GetPaths == SyncRoutes \cup {UnknownPath}

TriggerKinds == {"SIGTERM", "SIGINT", "uncaughtException"}

FlushOutcomes == {"callback", "hang", "throw"}

\* where metricsHandler's try block fails: nowhere, in register.metrics()
\* (the promise rejects), or in the original res.end called by endWrapper
ScrapeFaults == {"none", "metrics", "end"}

NoReq == [method |-> "GET", path |-> "/", fault |-> "none"]

NoProbe == [status |-> 0, state |-> "none"]

\* buckets of gas_http_request_duration_seconds, in milliseconds
upperBounds == <<1, 5, 10, 50, 100, 500, 1000, 2000, 5000, 10000>>

\* Date.now() - start, in milliseconds, of the requests followed in detail:
\* on, between and beyond the bucket boundaries, and below 0 (Date.now() is
\* not monotonic)
Durations == {-2, 0, 1, 3, 100, 10000, 12000}

\* the argument lists handlers call res.end with: res.end(), res.end(chunk),
\* res.end(chunk, encoding) as res.json does
EndArgs == {<<>>, <<"{}">>, <<"{}", "utf8">>}

\* the Content-Length header of a request or a response: absent, or the
\* number of bytes it announces
Absent == -1
Lengths == {Absent, 0, 2, 7}

\* a series of a summary at its creation
NoSize == [count |-> 0, sum |-> 0]

\* the buckets of a series at its creation
NoTally == [i \in 1..Len(upperBounds) |-> 0]

NoEnd == [status |-> 0, args |-> <<>>, reachedStatus |-> 0, reachedArgs |-> <<>>,
          path |-> "", series |-> <<"GET", "/", 200>>, duration |-> 0,
          requestLength |-> Absent, responseLength |-> Absent]

NoLive == [status |-> 0, body |-> "", state |-> "none"]

\* process.env.NODE_ENV and process.env.DEPLOYMENT_TYPE
Unset == "<unset>"
NodeEnvs == {Unset, "production", "development"}
DeploymentEnvs == {Unset, "", "stable", "canary", "blue", "green", "staging", "production"}

\* the keys of the JSON error bodies
ErrorFields == {"error", "message", "timestamp"}

\* err.message of what a handler, the body parser or the registry throws
ThrownMessage == "boom"

NoError == [status |-> 0, type |-> "", fields |-> {}, message |-> ""]

NoHealth == [status |-> 0, body |-> "", state |-> "none"]

NoRoot == [status |-> 0, deploymentType |-> ""]

\* the instruments metrics.js registers, in the order of the statements: two
\* of the default metrics of collectDefaultMetrics, then the seven custom ones
Registrations ==
  << [name |-> "gas_app_process_cpu_seconds_total", type |-> "counter"],
     [name |-> "gas_app_nodejs_version_info", type |-> "gauge"],
     [name |-> "gas_http_requests_total", type |-> "counter"],
     [name |-> "gas_http_request_duration_seconds", type |-> "histogram"],
     [name |-> "gas_http_request_size_bytes", type |-> "summary"],
     [name |-> "gas_http_response_size_bytes", type |-> "summary"],
     [name |-> "gas_active_connections", type |-> "gauge"],
     [name |-> "gas_app_version_info", type |-> "gauge"],
     [name |-> "gas_deployment_type", type |-> "gauge"] >>

\* what becomes of app.listen(PORT, HOST): the port is bound; the call throws
\* (a port outside 0..65535); or the bind is refused and the server emits
\* 'error' (a port in use or one the process may not bind)
ListenOutcomes == {"bound", "throws", "error"}

NoneDone == [entered |-> FALSE, recorded |-> 0, aborted |-> FALSE]

VARIABLES
  listening,          \* the server handle is open: new connections are accepted
  closeCalls,         \* number of server.close() calls so far
  closeCbs,           \* a callback is registered with once('close') and has not run
  closeEmitPending,   \* the 'close' event is queued on the next tick
  closeReported,      \* the 'close' event has been emitted
  timers,             \* deadlines of the armed force-exit timers, in arming order
  now,                \* milliseconds since the first shutdown trigger
  hasClient,          \* appInsights.defaultClient exists
  flushInvoked,       \* defaultClient.flush has been called
  flushPending,       \* a flush was called whose callback is still to come
  flushCalledBack,    \* a flush callback has run
  exited,             \* process.exit has been called
  exitCode,           \* its argument
  conn,               \* per connection slot: "closed", "idle" (keep-alive) or "busy"
  req,                \* the request an asynchronous handler is serving
  phase,              \* "none", "slow" (awaiting the delay) or "scrape" (awaiting register.metrics())
  aborted,            \* the client closed the connection while the handler was pending
  lastDone,           \* the request answered last since the latest call of gracefulShutdown:
                      \* whether it went through metricsMiddleware, how often endWrapper
                      \* recorded it, whether its client had aborted
  activeConnections,  \* gauge gas_active_connections
  httpRequestCounter, \* counter gas_http_requests_total, per label triple
  httpRequestDuration,\* observation count of gas_http_request_duration_seconds, per label triple
  responses,          \* responses sent, per <<method, route label, status>>
  unobserved,         \* responses sent for requests that never reached metricsMiddleware
  lastProbe,          \* the latest readiness answer and the shutdown state it was given in
  lastLive,           \* the latest liveness answer and the shutdown state it was given in
  arrivals,           \* requests received so far
  rejections,         \* unhandled promise rejections logged so far
  lastEnd,            \* the res.end call followed in detail: what the handler supplied,
                      \* what reached the original res.end, the series and duration observed
  bucketValues,       \* per label triple observed in detail and per bucket of the duration
                      \* histogram: the observations tallied in that bucket
  httpRequestSize,    \* summary gas_http_request_size_bytes, per <<method, route>>:
                      \* count and sum of the observations
  httpResponseSize,   \* summary gas_http_response_size_bytes, per label triple
  nodeEnv,            \* process.env.NODE_ENV
  deploymentEnv,      \* process.env.DEPLOYMENT_TYPE
  lastError,          \* the latest response with a status of 400 or more: status,
                      \* content type, keys of the JSON body, message
  lastHealth,         \* the latest answer of GET /health and the shutdown state it was given in
  lastRoot,           \* the latest answer of GET /
  lastTypes,          \* the TYPE lines of the latest scrape answered 200, in order
  boot,               \* how far the start has come: "loading" (the modules are being
                      \* loaded), "binding" or "refused" (app.listen has returned, its
                      \* outcome is still to be emitted), "serving", "crashed" (an
                      \* exception ended the loading) or "failed" (the listen error
                      \* has been handled)
  registry,           \* the instruments registered so far, in order
  uptime,             \* process.uptime() as a whole number of seconds
  formatted           \* the parts of the latest formatUptime result, in order

shutdownVars == <<listening, closeCalls, closeCbs, closeEmitPending, closeReported,
                  timers, now, hasClient, flushInvoked, flushPending, flushCalledBack,
                  exited, exitCode, rejections>>

metricVars == <<activeConnections, httpRequestCounter, httpRequestDuration>>

pipelineVars == <<conn, req, phase, aborted, responses, unobserved, lastProbe, lastLive,
                  arrivals>>

requestVars == <<pipelineVars, lastDone>>

observerVars == <<lastEnd, bucketValues, httpRequestSize, httpResponseSize>>

configVars == <<nodeEnv, deploymentEnv>>

answerVars == <<lastError, lastHealth, lastRoot, lastTypes>>

startupVars == <<boot, registry>>

uptimeVars == <<uptime, formatted>>

vars == <<shutdownVars, metricVars, requestVars, observerVars, configVars, answerVars,
          startupVars, uptimeVars>>

\* ------------------------------------------------------------- helpers

\* RUNNING until the first trigger, DRAINING until process.exit, then TERMINATED
ShutdownState ==
  IF exited THEN "TERMINATED"
  ELSE IF closeCalls > 0 THEN "DRAINING"
  ELSE "RUNNING"

Min(S) == CHOOSE x \in S : \A y \in S : x <= y

Deadlines == {timers[i] : i \in 1..Len(timers)}

OpenConns(cn) == {c \in Conns : cn[c] # "closed"}

\* variant: the 'close' event does not wait for the connections
HandleClosed(lst, cn) == ~lst

\* net.Server._emitCloseIfDrained: no handle and no connection left
Drained(lst, cn) == ~lst /\ OpenConns(cn) = {}

\* the value of the series of one label triple: a series exists from its
\* first use on
Value(f, t) == IF t \in DOMAIN f THEN f[t] ELSE 0

\* variant: counting one series starts the others again from 0
BumpAlone(f, t) == [x \in DOMAIN f \cup {t} |-> IF x = t THEN Value(f, t) + 1 ELSE 0]

\* Counter.inc on the series of one label triple
Bump(f, t) == [x \in DOMAIN f \cup {t} |-> IF x = t THEN Value(f, t) + 1 ELSE f[x]]

\* the three instruments the middleware writes, as one value
Instruments ==
  [gauge |-> activeConnections, counter |-> httpRequestCounter, hist |-> httpRequestDuration]

SetInstruments(m) ==
  /\ activeConnections' = m.gauge
  /\ httpRequestCounter' = m.counter
  /\ httpRequestDuration' = m.hist

\* variant: readiness is a flag the first readiness probe uses up
isReadyUntilProbed == lastProbe = NoProbe

\* const isReady = true
isReady == TRUE

\* readinessProbe: the status it answers with
readinessProbe == IF isReady THEN 200 ELSE 503

\* variant: the liveness answer follows the shutdown state
livenessProbeWhileRunning ==
  IF closeCalls = 0 THEN [status |-> 200, body |-> "alive"]
  ELSE [status |-> 503, body |-> "draining"]

\* livenessProbe: res.status(200).json({ status: 'alive', timestamp })
livenessProbe == [status |-> 200, body |-> "alive"]

\* variant: the health check fails once the process drains
healthCheckWhileRunning ==
  IF closeCalls = 0 THEN [status |-> 200, body |-> "healthy"]
  ELSE [status |-> 503, body |-> "unhealthy"]

\* healthCheck: res.status(200).json({ status: 'healthy', ... })
healthCheck == [status |-> 200, body |-> "healthy"]

\* GET /: const deploymentType = process.env.DEPLOYMENT_TYPE || 'stable'
rootHandler ==
  [status |-> 200,
   deploymentType |-> IF deploymentEnv \in {Unset, ""} THEN "stable" ELSE deploymentEnv]

\* variant: the test endpoint answers 500 without a JSON body
simulatedErrorBare ==
  [status |-> 500, type |-> "text", fields |-> {}, message |-> ""]

\* the series of gas_deployment_type set while metrics.js is loaded:
\* const isCanary = process.env.DEPLOYMENT_TYPE === 'canary';
\* deploymentType.labels(isCanary ? 'canary' : 'stable').set(isCanary ? 1 : 0)
isCanary == deploymentEnv = "canary"

deploymentType ==
  [type |-> IF isCanary THEN "canary" ELSE "stable",
   value |-> IF isCanary THEN 1 ELSE 0]

\* GET /api/error: res.status(500).json({ error, message, timestamp })
simulatedError ==
  [status |-> 500, type |-> "json", fields |-> ErrorFields,
   message |-> "This is a test error endpoint"]

\* the 404 handler: message `Cannot ${req.method} ${req.path}`
notFound(method, path) ==
  [status |-> 404, type |-> "json", fields |-> ErrorFields,
   message |-> "Cannot " \o method \o " " \o path]

\* the error handler: err.message unless NODE_ENV is production
errorHandler(message) ==
  [status |-> 500, type |-> "json", fields |-> ErrorFields,
   message |-> IF nodeEnv = "production" THEN "An error occurred" ELSE message]

\* variant: the catch block hands the error to the error handler
metricsFailureAsJson(message) ==
  [status |-> 500, type |-> "json", fields |-> ErrorFields, message |-> message]

\* the catch block of metricsHandler: res.status(500).end(error.message),
\* after res.set('Content-Type', register.contentType)
metricsFailure(message) ==
  [status |-> 500, type |-> "text", fields |-> {}, message |-> message]

\* the status a synchronous route handler answers with
HandlerStatus(route) ==
  CASE route = "/health/ready" -> readinessProbe
    [] route = "/health/live"  -> livenessProbe.status
    [] route = "/health"       -> healthCheck.status
    [] route = "/"             -> rootHandler.status
    [] route = "/api/error"    -> simulatedError.status
    [] OTHER                   -> 404

\* how the router reads a request path: no registered pattern has a
\* parameter, and the application leaves case-sensitive and strict routing
\* off, so letter case and one trailing slash make no difference
Canonical(path) ==
  CASE path = "/health/live/" -> "/health/live"
    [] path = "/HEALTH/LIVE"  -> "/health/live"
    [] path = "/health/ready/" -> "/health/ready"
    [] OTHER                  -> path

\* req.route: the pattern of the app.get registration that matched, if any
NoRoute == "<none>"

MatchedRoute(method, path) ==
  IF method = "GET" /\ Canonical(path) \in Routes THEN Canonical(path) ELSE NoRoute

\* variant: the label is always the path of the request
RequestPathLabel(method, path) == path

\* req.route ? req.route.path : req.path
RouteLabel(method, path) ==
  IF MatchedRoute(method, path) # NoRoute THEN MatchedRoute(method, path) ELSE path

\* metricsMiddleware up to next(): activeConnections.inc()
metricsMiddleware(m) == [m EXCEPT !.gauge = @ + 1]

\* variant: the duration is not observed when the response ends
endWrapperCounting(m, method, route, status) ==
  [m EXCEPT !.counter = Bump(@, <<method, route, status>>),
            !.gauge = @ - 1]

\* res.end as replaced by the middleware: counter, histogram, gauge
endWrapper(m, method, route, status) ==
  [m EXCEPT !.counter = Bump(@, <<method, route, status>>),
            !.hist = Bump(@, <<method, route, status>>),
            !.gauge = @ - 1]

\* how many runs of endWrapper lie between two values of the instruments:
\* each one decrements the gauge
Recorded(before, after) == before.gauge - after.gauge

\* the connection after a response: kept alive unless the client is gone
AfterResponse(c) == IF aborted[c] THEN "closed" ELSE "idle"

Names(reg) == {reg[i].name : i \in 1..Len(reg)}

\* variant: a registration under a name already taken replaces nothing and
\* is added all the same
registerMetricAgain(reg, m) == Append(reg, m)

\* Registry.registerMetric: a name already taken is refused (the call throws)
registerMetric(reg, m) == IF m.name \in Names(reg) THEN reg ELSE Append(reg, m)

\* Registry.metrics(): one "# TYPE name type" line per registered instrument,
\* in the order of registration
metrics(reg) == [i \in 1..Len(reg) |-> <<"# TYPE", reg[i].name, reg[i].type>>]

\* the state of a process that has handled no event yet
Fresh ==
  /\ closeCalls = 0
  /\ closeCbs = FALSE
  /\ closeEmitPending = FALSE
  /\ closeReported = FALSE
  /\ timers = <<>>
  /\ now = 0
  /\ hasClient \in BOOLEAN
  /\ flushInvoked = FALSE
  /\ flushPending = FALSE
  /\ flushCalledBack = FALSE
  /\ exited = FALSE
  /\ exitCode = 0
  /\ conn = [c \in Conns |-> "closed"]
  /\ req = [c \in Conns |-> NoReq]
  /\ phase = [c \in Conns |-> "none"]
  /\ aborted = [c \in Conns |-> FALSE]
  /\ lastDone = NoneDone
  /\ activeConnections = 0
  /\ httpRequestCounter = [t \in {} |-> 0]
  /\ httpRequestDuration = [t \in {} |-> 0]
  /\ responses = [t \in {} |-> 0]
  /\ unobserved = 0
  /\ lastProbe = NoProbe
  /\ lastLive = NoLive
  /\ arrivals = 0
  /\ rejections = 0
  /\ lastEnd = NoEnd
  /\ bucketValues = [t \in {} |-> NoTally]
  /\ httpRequestSize = [t \in {} |-> NoSize]
  /\ httpResponseSize = [t \in {} |-> NoSize]
  /\ lastError = NoError
  /\ lastHealth = NoHealth
  /\ lastRoot = NoRoot
  /\ lastTypes = <<>>

\* the state once the modules are loaded and the server listens
Started ==
  /\ Fresh
  /\ listening = TRUE
  /\ boot = "serving"
  /\ registry = Registrations
  /\ uptime = 0
  /\ formatted = <<>>

\* the state before metrics.js registers its first instrument
StartupInit ==
  /\ Fresh
  /\ listening = FALSE
  /\ boot = "loading"
  /\ registry = <<>>
  /\ uptime = 0
  /\ formatted = <<>>
  /\ nodeEnv = Unset
  /\ deploymentEnv = Unset

\* the whole numbers of seconds formatUptime is applied to: every hour of
\* each day up to MaxDays, with the first, second, middle and last minute and
\* second
UptimeSamples ==
  {d * 86400 + h * 3600 + m * 60 + x :
     d \in 0..MaxDays, h \in 0..23, m \in {0, 1, 30, 59}, x \in {0, 1, 30, 59}}

\* the process at each uptime, before any health check
UptimeInit ==
  /\ Fresh
  /\ listening = TRUE
  /\ boot = "serving"
  /\ registry = Registrations
  /\ nodeEnv = Unset
  /\ deploymentEnv = Unset
  /\ uptime \in UptimeSamples
  /\ formatted = <<>>

\* the process as started without NODE_ENV and DEPLOYMENT_TYPE
Init ==
  /\ Started
  /\ nodeEnv = Unset
  /\ deploymentEnv = Unset

\* the process as started under each NODE_ENV
EnvironmentInit ==
  /\ Started
  /\ nodeEnv \in NodeEnvs
  /\ deploymentEnv = Unset

\* the process as started under each DEPLOYMENT_TYPE
DeploymentInit ==
  /\ Started
  /\ nodeEnv = Unset
  /\ deploymentEnv \in DeploymentEnvs

\* ------------------------------------------------------ request pipeline

\* the slots a new connection can take: no connection and no handler left over
FreeSlots == {c \in Conns : conn[c] = "closed" /\ phase[c] = "none"}

\* a request can be read on slot c: the process runs its event loop, and c is
\* an idle keep-alive connection or, while the server listens, the slot the
\* next accepted connection takes (the lowest free one)
CanReceive(c) ==
  /\ ~exited
  /\ ~closeEmitPending
  /\ arrivals < MaxRequests
  /\ phase[c] = "none"
  /\ \/ conn[c] = "idle"
     \/ listening /\ c \in FreeSlots /\ c = Min(FreeSlots)

Receive(c) ==
  /\ arrivals' = arrivals + 1
  /\ UNCHANGED aborted

\* express.json() rejects the body: next(err) skips every non-error middleware,
\* the error handler answers 500 through the unpatched res.end
BodyParseFailure(c) ==
  /\ CanReceive(c)
  /\ Receive(c)
  /\ lastDone' = NoneDone
  /\ responses' = Bump(responses, <<"POST", PostPath, 500>>)
  /\ unobserved' = unobserved + 1
  /\ lastError' = errorHandler(ThrownMessage)
  /\ conn' = [conn EXCEPT ![c] = "idle"]
  /\ UNCHANGED <<req, phase, lastProbe, lastLive, metricVars, shutdownVars>>
  /\ UNCHANGED <<observerVars, configVars, uptimeVars, startupVars, lastHealth, lastRoot, lastTypes>>

\* a request whose handler answers in the same turn: a synchronous route
\* (throws = the handler throws and the error handler answers), or no route
SyncRequest(c, method, path, throws) ==
  /\ CanReceive(c)
  /\ Receive(c)
  /\ throws => MatchedRoute(method, path) # NoRoute
  /\ LET matched == MatchedRoute(method, path) # NoRoute
         status == IF ~matched THEN 404
                   ELSE IF throws THEN 500
                   ELSE HandlerStatus(MatchedRoute(method, path))
         route == RouteLabel(method, path)
         inside == metricsMiddleware(Instruments)
         after == endWrapper(inside, method, route, status)
     IN /\ SetInstruments(after)
        /\ lastDone' = [entered |-> TRUE, recorded |-> Recorded(inside, after),
                        aborted |-> FALSE]
        /\ responses' = Bump(responses, <<method, route, status>>)
        /\ lastProbe' = IF matched /\ ~throws /\ route = "/health/ready"
                        THEN [status |-> status, state |-> ShutdownState]
                        ELSE lastProbe
        /\ lastLive' = IF matched /\ ~throws /\ route = "/health/live"
                       THEN [status |-> status, body |-> livenessProbe.body,
                             state |-> ShutdownState]
                       ELSE lastLive
        /\ lastHealth' = IF matched /\ ~throws /\ route = "/health"
                         THEN [status |-> status, body |-> healthCheck.body,
                               state |-> ShutdownState]
                         ELSE lastHealth
        /\ lastRoot' = IF matched /\ ~throws /\ route = "/"
                       THEN [status |-> status,
                             deploymentType |-> rootHandler.deploymentType]
                       ELSE lastRoot
        /\ lastError' = IF ~matched THEN notFound(method, path)
                        ELSE IF throws THEN errorHandler(ThrownMessage)
                        ELSE IF route = "/api/error" THEN simulatedError
                        ELSE lastError
  /\ conn' = [conn EXCEPT ![c] = "idle"]
  /\ UNCHANGED <<req, phase, unobserved, shutdownVars>>
  /\ UNCHANGED <<observerVars, configVars, uptimeVars, startupVars, lastTypes>>

\* GET /api/slow up to its await
SlowStart(c) ==
  /\ CanReceive(c)
  /\ Receive(c)
  /\ SetInstruments(metricsMiddleware(Instruments))
  /\ req' = [req EXCEPT ![c] = [method |-> "GET", path |-> "/api/slow", fault |-> "none"]]
  /\ phase' = [phase EXCEPT ![c] = "slow"]
  /\ conn' = [conn EXCEPT ![c] = "busy"]
  /\ UNCHANGED <<lastDone, responses, unobserved, lastProbe, lastLive, shutdownVars>>
  /\ UNCHANGED <<observerVars, configVars, uptimeVars, startupVars, answerVars>>

\* variant: the delay timer is dropped when the client has gone
SlowTimerFiresUnlessAborted(c) == phase[c] = "slow" /\ ~aborted[c]

\* the delay timer of GET /api/slow fires whatever happened to the connection
SlowTimerFires(c) == phase[c] = "slow"

\* GET /api/slow after the delay: res.json
SlowFinish(c) ==
  /\ ~exited
  /\ ~closeEmitPending
  /\ SlowTimerFires(c)
  /\ LET route == RouteLabel("GET", "/api/slow")
         after == endWrapper(Instruments, "GET", route, 200)
     IN /\ SetInstruments(after)
        /\ responses' = Bump(responses, <<"GET", route, 200>>)
        /\ lastDone' = [entered |-> TRUE, recorded |-> Recorded(Instruments, after),
                        aborted |-> aborted[c]]
  /\ phase' = [phase EXCEPT ![c] = "none"]
  /\ req' = [req EXCEPT ![c] = NoReq]
  /\ conn' = [conn EXCEPT ![c] = AfterResponse(c)]
  /\ aborted' = [aborted EXCEPT ![c] = FALSE]
  /\ UNCHANGED <<unobserved, lastProbe, lastLive, arrivals, shutdownVars>>
  /\ UNCHANGED <<observerVars, configVars, uptimeVars, startupVars, answerVars>>

\* GET /metrics up to its await
ScrapeStart(c, fault) ==
  /\ CanReceive(c)
  /\ Receive(c)
  /\ SetInstruments(metricsMiddleware(Instruments))
  /\ req' = [req EXCEPT ![c] = [method |-> "GET", path |-> "/metrics", fault |-> fault]]
  /\ phase' = [phase EXCEPT ![c] = "scrape"]
  /\ conn' = [conn EXCEPT ![c] = "busy"]
  /\ UNCHANGED <<lastDone, responses, unobserved, lastProbe, lastLive, shutdownVars>>
  /\ UNCHANGED <<observerVars, configVars, uptimeVars, startupVars, answerVars>>

\* the statuses with which metricsHandler calls res.end after its await, in
\* call order: the serialized metrics, or 500 from the catch block; when
\* res.end(metrics) itself throws (after endWrapper has recorded) the catch
\* block calls res.end a second time
ScrapeEnds(fault) ==
  CASE fault = "none"    -> <<200>>
    [] fault = "metrics" -> <<500>>
    [] fault = "end"     -> <<200, 500>>

RECURSIVE EndAll(_, _, _, _)
EndAll(m, method, route, sts) ==
  IF sts = <<>> THEN m
  ELSE EndAll(endWrapper(m, method, route, Head(sts)), method, route, Tail(sts))

\* the status that reaches the client: that of the res.end call that did not throw
Delivered(sts) == sts[Len(sts)]

\* GET /metrics after register.metrics() settled
ScrapeResume(c) ==
  /\ ~exited
  /\ ~closeEmitPending
  /\ phase[c] = "scrape"
  /\ LET sts == ScrapeEnds(req[c].fault)
         route == RouteLabel("GET", "/metrics")
         after == EndAll(Instruments, "GET", route, sts)
     IN /\ SetInstruments(after)
        /\ responses' = Bump(responses, <<"GET", route, Delivered(sts)>>)
        /\ lastDone' = [entered |-> TRUE, recorded |-> Recorded(Instruments, after),
                        aborted |-> aborted[c]]
  /\ lastError' = IF req[c].fault = "none" THEN lastError
                  ELSE metricsFailure(ThrownMessage)
  /\ lastTypes' = IF req[c].fault = "none" THEN metrics(registry) ELSE lastTypes
  /\ phase' = [phase EXCEPT ![c] = "none"]
  /\ req' = [req EXCEPT ![c] = NoReq]
  /\ conn' = [conn EXCEPT ![c] = AfterResponse(c)]
  /\ aborted' = [aborted EXCEPT ![c] = FALSE]
  /\ UNCHANGED <<unobserved, lastProbe, lastLive, arrivals, shutdownVars>>
  /\ UNCHANGED <<observerVars, configVars, uptimeVars, startupVars, lastHealth, lastRoot>>

\* the 'close' event is due once the handle is closed, the last connection is
\* gone and a callback is registered
CloseDue(lst, cn, cbs) == Drained(lst, cn) /\ cbs

\* the client closes the connection while the handler is at its await; no
\* code of the server listens for it, the handler stays pending
Abort(c) ==
  /\ ~exited
  /\ ~closeEmitPending
  /\ phase[c] # "none"
  /\ conn[c] = "busy"
  /\ aborted' = [aborted EXCEPT ![c] = TRUE]
  /\ conn' = [conn EXCEPT ![c] = "closed"]
  /\ closeEmitPending' = CloseDue(listening, conn', closeCbs)
  /\ UNCHANGED <<req, phase, lastDone, responses, unobserved, lastProbe, lastLive, arrivals,
                 metricVars, listening, closeCalls, closeCbs, closeReported, timers, now,
                 hasClient, flushInvoked, flushPending, flushCalledBack, exited, exitCode,
                 rejections>>
  /\ UNCHANGED <<observerVars, configVars, uptimeVars, startupVars, answerVars>>

\* an idle keep-alive connection ends (keep-alive timeout or the client)
CloseConn(c) ==
  /\ ~exited
  /\ ~closeEmitPending
  /\ conn[c] = "idle"
  /\ conn' = [conn EXCEPT ![c] = "closed"]
  /\ closeEmitPending' = CloseDue(listening, conn', closeCbs)
  /\ UNCHANGED <<req, phase, aborted, lastDone, responses, unobserved, lastProbe, lastLive,
                 arrivals, metricVars, listening, closeCalls, closeCbs, closeReported, timers,
                 now, hasClient, flushInvoked, flushPending, flushCalledBack, exited, exitCode,
                 rejections>>
  /\ UNCHANGED <<observerVars, configVars, uptimeVars, startupVars, answerVars>>

\* ------------------------------------------------- the observer in detail

\* variant: the wrapper declares one parameter and forwards only that one
ForwardFirst(args) == IF args = <<>> THEN <<>> ELSE <<args[1]>>

\* function endWrapper(...args) { ... originalEnd.apply(res, args) }: the rest
\* parameter collects every argument, apply hands each one on in order
Forward(args) == [i \in 1..Len(args) |-> args[i]]

\* variant: an observation on a boundary falls into the next bucket
BelowBound(value, bound) == value < bound

\* the comparison of prom-client's findBound
WithinBound(value, bound) == value <= bound

\* the bucket an observation is tallied in: the first whose bound holds the
\* value, none (0) when it is beyond the last bound
findBound(value) ==
  IF \E i \in 1..Len(upperBounds) : WithinBound(value, upperBounds[i])
  THEN Min({i \in 1..Len(upperBounds) : WithinBound(value, upperBounds[i])})
  ELSE 0

\* Histogram.observe on the buckets of one series (sum and count apart)
observe(b, value) ==
  IF findBound(value) = 0 THEN b ELSE [b EXCEPT ![findBound(value)] = @ + 1]

RECURSIVE Accumulate(_, _)
Accumulate(b, i) == IF i = 0 THEN 0 ELSE b[i] + Accumulate(b, i - 1)

\* the series is created by its first observation
Tally(b, t) == IF t \in DOMAIN b THEN b[t] ELSE NoTally

\* httpRequestDuration.labels(...).observe(value)
observeSeries(b, t, value) ==
  [x \in DOMAIN b \cup {t} |-> IF x = t THEN observe(Tally(b, t), value) ELSE b[x]]

\* the value exported for bucket le = upperBounds[i]: the running total
\* of the tallies
BucketExport(t, i) == Accumulate(bucketValues[t], i)

\* the value exported for bucket le = "+Inf": the count of the series
InfExport(t) == Value(httpRequestDuration, t)

\* parseInt(req.get('content-length') || '0', 10), and the same for res
parseLength(header) == IF header = Absent THEN 0 ELSE header

\* if (requestSize > 0), if (responseSize > 0)
SizeObserved(header) == parseLength(header) > 0

\* Summary.labels(...).observe(value)
observeSize(f, t, value) ==
  [x \in DOMAIN f \cup {t} |->
     IF x = t
     THEN [count |-> (IF t \in DOMAIN f THEN f[t].count ELSE 0) + 1,
           sum |-> (IF t \in DOMAIN f THEN f[t].sum ELSE 0) + value]
     ELSE f[x]]

\* the series of a summary as a scrape reports it
Size(f, t) == IF t \in DOMAIN f THEN f[t] ELSE NoSize

\* one request followed through the observer: metricsMiddleware, then the
\* handler sets the status and calls res.end(...args), which is endWrapper
EndCall(method, path, status, args, duration, requestLength, responseLength) ==
  /\ ~exited
  /\ arrivals < MaxRequests
  /\ arrivals' = arrivals + 1
  /\ LET route == RouteLabel(method, path)
         t == <<method, route, status>>
     IN /\ SetInstruments(endWrapper(metricsMiddleware(Instruments), method, route, status))
        /\ bucketValues' = observeSeries(bucketValues, t, duration)
        /\ responses' = Bump(responses, t)
        /\ httpRequestSize' =
             IF SizeObserved(requestLength)
             THEN observeSize(httpRequestSize, <<method, route>>, parseLength(requestLength))
             ELSE httpRequestSize
        /\ httpResponseSize' =
             IF SizeObserved(responseLength)
             THEN observeSize(httpResponseSize, t, parseLength(responseLength))
             ELSE httpResponseSize
        /\ lastEnd' = [status |-> status, args |-> args,
                       reachedStatus |-> status, reachedArgs |-> Forward(args),
                       path |-> path, series |-> t, duration |-> duration,
                       requestLength |-> requestLength,
                       responseLength |-> responseLength]
  /\ UNCHANGED <<conn, req, phase, aborted, lastDone, unobserved, lastProbe, lastLive,
                 shutdownVars, configVars, uptimeVars, startupVars, answerVars>>

\* a request answered in the same turn, followed through the observer: by
\* its route handler, by the error handler when that one throws, or by the
\* 404 handler
LabelledRequest(method, path, throws) ==
  /\ throws => MatchedRoute(method, path) # NoRoute
  /\ EndCall(method, path,
             IF MatchedRoute(method, path) = NoRoute THEN 404
             ELSE IF throws THEN 500
             ELSE HandlerStatus(MatchedRoute(method, path)),
             <<"{}", "utf8">>, 1, Absent, 2)

\* ------------------------------------------------------------- shutdown

\* variant: arming clears the timers armed before
RearmTimer(ts, t) == <<t + ForceTimeoutMs>>

\* setTimeout(..., 30000): one more timer, none is cleared
ArmTimer(ts, t) == Append(ts, t + ForceTimeoutMs)

\* gracefulShutdown(signal): server.close(cb) registers the callback for the
\* next 'close' event whether or not the server is still listening, and the
\* event is queued at once when no connection is open
gracefulShutdown ==
  /\ closeCalls' = closeCalls + 1
  /\ listening' = FALSE
  /\ closeCbs' = TRUE
  /\ closeEmitPending' = CloseDue(FALSE, conn, TRUE)
  /\ timers' = ArmTimer(timers, now)

\* SIGTERM, SIGINT or an uncaught exception raised outside the shutdown path
\* (lastDone starts again: it describes what was answered since this call)
Trigger(kind) ==
  /\ ~exited
  /\ ~closeEmitPending
  /\ closeCalls + rejections < MaxTriggers
  /\ gracefulShutdown
  /\ lastDone' = NoneDone
  /\ UNCHANGED <<closeReported, now, hasClient, flushInvoked, flushPending, flushCalledBack,
                 exited, exitCode, rejections, metricVars, pipelineVars>>
  /\ UNCHANGED <<observerVars, configVars, uptimeVars, startupVars, answerVars>>

\* a promise rejects with no handler attached: the 'unhandledRejection'
\* listener logs it and returns
UnhandledRejection ==
  /\ ~exited
  /\ ~closeEmitPending
  /\ closeCalls + rejections < MaxTriggers
  /\ rejections' = rejections + 1
  /\ UNCHANGED <<listening, closeCalls, closeCbs, closeEmitPending, closeReported, timers,
                 now, hasClient, flushInvoked, flushPending, flushCalledBack, exited, exitCode,
                 metricVars, requestVars>>
  /\ UNCHANGED <<observerVars, configVars, uptimeVars, startupVars, answerVars>>

\* variant: the close callback exits without looking for a telemetry client
CloseCallbackExitsAlways(client) == TRUE

\* the close callback calls process.exit(0) itself when there is no telemetry client
CloseCallbackExits(client) == ~client

\* the 'close' event: the registered callbacks run. Without a client the
\* first one exits. With a client each calls flush; a flush that throws ends
\* the emit, and the uncaughtException handler calls gracefulShutdown again
EmitClose(outcome) ==
  /\ ~exited
  /\ closeEmitPending
  /\ closeReported' = TRUE
  /\ IF CloseCallbackExits(hasClient)
     THEN /\ exited' = TRUE
          /\ exitCode' = 0
          /\ closeEmitPending' = FALSE
          /\ closeCbs' = FALSE
          /\ UNCHANGED <<flushInvoked, flushPending, closeCalls, listening, timers, lastDone>>
     ELSE IF outcome = "throw"
     THEN /\ closeCalls + rejections < MaxTriggers
          /\ flushInvoked' = TRUE
          /\ gracefulShutdown
          /\ lastDone' = NoneDone
          /\ UNCHANGED <<flushPending, exited, exitCode>>
     ELSE /\ flushInvoked' = TRUE
          /\ flushPending' = (flushPending \/ outcome = "callback")
          /\ closeCbs' = FALSE
          /\ closeEmitPending' = FALSE
          /\ UNCHANGED <<exited, exitCode, closeCalls, listening, timers, lastDone>>
  /\ UNCHANGED <<now, hasClient, flushCalledBack, rejections, metricVars, pipelineVars>>
  /\ UNCHANGED <<observerVars, configVars, uptimeVars, startupVars, answerVars>>

\* the callback handed to defaultClient.flush: process.exit(0)
FlushCallback ==
  /\ ~exited
  /\ ~closeEmitPending
  /\ flushPending
  /\ flushCalledBack' = TRUE
  /\ exited' = TRUE
  /\ exitCode' = 0
  /\ UNCHANGED <<listening, closeCalls, closeCbs, closeEmitPending, closeReported, timers,
                 now, hasClient, flushInvoked, flushPending, rejections, metricVars,
                 requestVars>>
  /\ UNCHANGED <<observerVars, configVars, uptimeVars, startupVars, answerVars>>

\* variant: the force-exit timers do not keep firing (cleared or unref'd)
TimerNeverDue == FALSE

\* a force-exit timer is due
TimerDue == \E d \in Deadlines : d <= now

\* the setTimeout callback of gracefulShutdown: process.exit(1)
ForceExit ==
  /\ ~exited
  /\ ~closeEmitPending
  /\ TimerDue
  /\ exited' = TRUE
  /\ exitCode' = 1
  /\ UNCHANGED <<listening, closeCalls, closeCbs, closeEmitPending, closeReported, timers,
                 now, hasClient, flushInvoked, flushPending, flushCalledBack, rejections,
                 metricVars, requestVars>>
  /\ UNCHANGED <<observerVars, configVars, uptimeVars, startupVars, answerVars>>

\* time passes, at most TickMs at once and never past a timer that is due:
\* the event loop runs a due timer before anything later
Tick ==
  /\ ~exited
  /\ ~closeEmitPending
  /\ timers # <<>>
  /\ now < Min(Deadlines)
  /\ now' = IF now + TickMs < Min(Deadlines) THEN now + TickMs ELSE Min(Deadlines)
  /\ UNCHANGED <<listening, closeCalls, closeCbs, closeEmitPending, closeReported, timers,
                 hasClient, flushInvoked, flushPending, flushCalledBack, exited, exitCode,
                 rejections, metricVars, requestVars>>
  /\ UNCHANGED <<observerVars, configVars, uptimeVars, startupVars, answerVars>>

\* ------------------------------------------------------------- startup

\* an exception while the modules are loaded: no 'uncaughtException' listener
\* is registered yet, the process ends with status 1
Crash ==
  /\ exited' = TRUE
  /\ exitCode' = 1
  /\ boot' = "crashed"

\* the next registration statement of metrics.js (duplicate = it names an
\* instrument already registered)
RegisterMetric(duplicate) ==
  /\ boot = "loading"
  /\ ~exited
  /\ Len(registry) < Len(Registrations)
  /\ duplicate => registry # <<>>
  /\ LET next == Registrations[Len(registry) + 1]
         m == IF duplicate THEN [next EXCEPT !.name = registry[1].name] ELSE next
     IN /\ registry' = registerMetric(registry, m)
        /\ IF registry' = registry
           THEN Crash
           ELSE UNCHANGED <<exited, exitCode, boot>>
  /\ UNCHANGED <<listening, closeCalls, closeCbs, closeEmitPending, closeReported, timers,
                 now, hasClient, flushInvoked, flushPending, flushCalledBack, rejections,
                 metricVars, requestVars>>
  /\ UNCHANGED <<observerVars, configVars, uptimeVars, answerVars>>

\* const server = app.listen(PORT, HOST, ...), after every module is loaded;
\* when the call returns the process.on listeners are registered
Listen(outcome) ==
  /\ boot = "loading"
  /\ ~exited
  /\ Len(registry) = Len(Registrations)
  /\ CASE outcome = "bound"  -> boot' = "binding" /\ UNCHANGED <<exited, exitCode>>
       [] outcome = "error"  -> boot' = "refused" /\ UNCHANGED <<exited, exitCode>>
       [] outcome = "throws" -> Crash
  /\ UNCHANGED <<listening, closeCalls, closeCbs, closeEmitPending, closeReported, timers,
                 now, hasClient, flushInvoked, flushPending, flushCalledBack, rejections,
                 metricVars, requestVars>>
  /\ UNCHANGED <<observerVars, configVars, uptimeVars, answerVars, registry>>

\* the 'listening' event: the server accepts connections
Bound ==
  /\ boot = "binding"
  /\ ~exited
  /\ boot' = "serving"
  /\ listening' = TRUE
  /\ UNCHANGED <<closeCalls, closeCbs, closeEmitPending, closeReported, timers,
                 now, hasClient, flushInvoked, flushPending, flushCalledBack, rejections,
                 exited, exitCode, metricVars, requestVars>>
  /\ UNCHANGED <<observerVars, configVars, uptimeVars, answerVars, registry>>

\* the 'error' event of a server without an 'error' listener: the error is
\* thrown, the 'uncaughtException' listener calls gracefulShutdown
ListenError ==
  /\ boot = "refused"
  /\ ~exited
  /\ boot' = "failed"
  /\ gracefulShutdown
  /\ lastDone' = NoneDone
  /\ UNCHANGED <<closeReported, now, hasClient, flushInvoked, flushPending, flushCalledBack,
                 exited, exitCode, rejections, metricVars, pipelineVars>>
  /\ UNCHANGED <<observerVars, configVars, uptimeVars, answerVars, registry>>

\* ------------------------------------------------------- specification

Next ==
  \/ \E c \in Conns : BodyParseFailure(c)
  \/ \E c \in Conns, p \in GetPaths, t \in BOOLEAN : SyncRequest(c, "GET", p, t)
  \/ \E c \in Conns : SlowStart(c)
  \/ \E c \in Conns : SlowFinish(c)
  \/ \E c \in Conns, f \in ScrapeFaults : ScrapeStart(c, f)
  \/ \E c \in Conns : ScrapeResume(c)
  \/ \E c \in Conns : Abort(c)
  \/ \E c \in Conns : CloseConn(c)
  \/ \E k \in TriggerKinds : Trigger(k)
  \/ \E o \in FlushOutcomes : EmitClose(o)
  \/ FlushCallback
  \/ ForceExit
  \/ Tick

\* (an unhandled rejection changes nothing but the log; it is a step of the
\* shutdown specification below)
Spec == Init /\ [][Next]_vars

\* the steps that matter to a pending handler: Next without the requests that
\* are answered in the turn they arrive (they change no connection but their
\* own and no pending handler) and without the clock and the force-exit timer
\* (they can only end the process)
NextPending ==
  \/ \E c \in Conns : SlowStart(c)
  \/ \E c \in Conns : SlowFinish(c)
  \/ \E c \in Conns, f \in ScrapeFaults : ScrapeStart(c, f)
  \/ \E c \in Conns : ScrapeResume(c)
  \/ \E c \in Conns : Abort(c)
  \/ \E c \in Conns : CloseConn(c)
  \/ \E k \in TriggerKinds : Trigger(k)
  \/ \E o \in FlushOutcomes : EmitClose(o)
  \/ FlushCallback

\* the event loop runs every callback that is queued: the delay timer of
\* /api/slow, the continuation of the settled register.metrics() promise, the
\* next-tick 'close' emit. While one of them is queued the loop does not
\* stand still (only finitely many can ever be queued, so none waits forever)
PendingFairness ==
  WF_vars(\/ \E c \in Conns : SlowFinish(c)
          \/ \E c \in Conns : ScrapeResume(c)
          \/ \E o \in FlushOutcomes : EmitClose(o))

PendingSpec == Init /\ [][NextPending]_vars /\ PendingFairness

\* the steps of a shutdown with requests in flight: Next without the requests
\* that are answered in the turn they arrive and without the scrapes (for the
\* shutdown sequence a scrape is one more handler pending at its await)
NextShutdown ==
  \/ \E c \in Conns : SlowStart(c)
  \/ \E c \in Conns : SlowFinish(c)
  \/ \E c \in Conns : Abort(c)
  \/ \E c \in Conns : CloseConn(c)
  \/ \E k \in TriggerKinds : Trigger(k)
  \/ UnhandledRejection
  \/ \E o \in FlushOutcomes : EmitClose(o)
  \/ FlushCallback
  \/ ForceExit
  \/ Tick

\* the event loop runs whatever is due: the next-tick 'close' emit and the
\* setTimeout callback of gracefulShutdown; and time passes
ShutdownFairness ==
  /\ WF_vars(\E o \in FlushOutcomes : EmitClose(o))
  /\ WF_vars(ForceExit)
  /\ WF_vars(Tick)

ShutdownSpec == Init /\ [][NextShutdown]_vars /\ ShutdownFairness

\* the steps the probes see: probe requests on new and kept-alive
\* connections, and the shutdown sequence
NextProbe ==
  \/ \E c \in Conns, p \in ProbeRoutes : SyncRequest(c, "GET", p, FALSE)
  \/ \E c \in Conns : CloseConn(c)
  \/ \E k \in TriggerKinds : Trigger(k)
  \/ UnhandledRejection
  \/ \E o \in FlushOutcomes : EmitClose(o)
  \/ FlushCallback
  \/ ForceExit
  \/ Tick

ProbeSpec == Init /\ [][NextProbe]_vars

\* the observer alone: responses of two routes, answered by the handler (200)
\* or by the error handler (500), ended with every argument list after every
\* duration
NextObserver ==
  \E p \in {"/health/live", "/api/slow"}, st \in {200, 500}, a \in EndArgs, d \in Durations :
     EndCall("GET", p, st, a, d, Absent, IF a = <<>> THEN Absent ELSE 2)

ObserverSpec == Init /\ [][NextObserver]_vars

\* the answers under each NODE_ENV: the routes followed to their body,
\* requests without a route, throwing handlers, malformed bodies and scrapes,
\* before and during a shutdown
NextAnswer ==
  \/ \E c \in Conns : BodyParseFailure(c)
  \/ \E c \in Conns, p \in AnswerPaths, t \in BOOLEAN : SyncRequest(c, "GET", p, t)
  \/ \E c \in Conns, f \in ScrapeFaults : ScrapeStart(c, f)
  \/ \E c \in Conns : ScrapeResume(c)
  \/ \E c \in Conns : CloseConn(c)
  \/ \E k \in TriggerKinds : Trigger(k)
  \/ \E o \in FlushOutcomes : EmitClose(o)
  \/ FlushCallback

AnswerSpec == EnvironmentInit /\ [][NextAnswer]_vars

\* the start of the process and what follows it: the registrations, the
\* bind, scrapes once the server listens, and the shutdown a refused bind
\* sets off
NextStartup ==
  \/ \E d \in BOOLEAN : RegisterMetric(d)
  \/ \E o \in ListenOutcomes : Listen(o)
  \/ Bound
  \/ ListenError
  \/ \E c \in Conns, f \in ScrapeFaults : ScrapeStart(c, f)
  \/ \E c \in Conns : ScrapeResume(c)
  \/ \E c \in Conns : CloseConn(c)
  \/ \E o \in FlushOutcomes : EmitClose(o)
  \/ FlushCallback
  \/ ForceExit
  \/ Tick

StartupSpec == StartupInit /\ [][NextStartup]_vars

\* GET / and the health check under each DEPLOYMENT_TYPE, on new and
\* kept-alive connections
NextRoot ==
  \/ \E c \in Conns, p \in {"/", "/health"} : SyncRequest(c, "GET", p, FALSE)
  \/ \E c \in Conns : CloseConn(c)

RootSpec == DeploymentInit /\ [][NextRoot]_vars

\* requests and responses with and without a Content-Length header, each
\* followed to the size summaries
NextSizes ==
  \E p \in {"/", "/health"}, st \in {200, 500}, q \in Lengths, r \in Lengths :
     EndCall("GET", p, st, <<"{}", "utf8">>, 1, q, r)

SizeSpec == Init /\ [][NextSizes]_vars

\* requests in every spelling, each followed to the label of its series
NextRoute ==
  \E r \in LabelRequests, throws \in BOOLEAN : LabelledRequest(r[1], r[2], throws)

RouteSpec == Init /\ [][NextRoute]_vars

\* variant: the hours are not reduced modulo a day
formatUptimeTotalHours(seconds) ==
  LET days == seconds \div 86400
      hours == seconds \div 3600
      minutes == (seconds % 3600) \div 60
      secs == seconds % 60
      part(n, unit) == IF n > 0 THEN <<[n |-> n, unit |-> unit]>> ELSE <<>>
  IN part(days, "d") \o part(hours, "h") \o part(minutes, "m")
       \o <<[n |-> secs, unit |-> "s"]>>

\* formatUptime(seconds): Math.floor of each quotient (on whole seconds the
\* integer division), a part pushed for days, hours and minutes when it is
\* > 0, the seconds part pushed always; a part `${n}${unit}` is kept as the
\* record of its number and unit, parts.join(' ') as the sequence of parts
formatUptime(seconds) ==
  LET days == seconds \div 86400
      hours == (seconds % 86400) \div 3600
      minutes == (seconds % 3600) \div 60
      secs == seconds % 60
      part(n, unit) == IF n > 0 THEN <<[n |-> n, unit |-> unit]>> ELSE <<>>
  IN part(days, "d") \o part(hours, "h") \o part(minutes, "m")
       \o <<[n |-> secs, unit |-> "s"]>>

\* healthCheck: uptime.formatted = formatUptime(uptime)
FormatUptime ==
  /\ formatted' = formatUptime(uptime)
  /\ UNCHANGED <<shutdownVars, metricVars, requestVars, observerVars, configVars,
                 answerVars, startupVars, uptime>>

\* formatUptime applied at each uptime
NextUptime == FormatUptime

UptimeSpec == UptimeInit /\ [][NextUptime]_vars

\* --------------------------------------------------------------- claims

\* the listener has reported closed and, with a telemetry client, a flush has called back
DrainComplete == closeReported /\ (hasClient => flushCalledBack)

\* a request that went through metricsMiddleware and whose handler is still pending
Outstanding(c) == phase[c] # "none"

\* C1: a readiness probe answered while RUNNING answers 200, and one answered
\* after a shutdown trigger (DRAINING) answers 503.
C1_ReadinessFollowsState ==
  /\ lastProbe.state = "RUNNING" => lastProbe.status = 200
  /\ lastProbe.state = "DRAINING" => lastProbe.status = 503

\* C2: once server.close has been called the readiness answer is not-ready
\* (the flip precedes the close), no probe answers ready after a trigger, and
\* the process exits only after the close was initiated.
C2_FlipBeforeClose ==
  /\ closeCalls > 0 => readinessProbe = 503
  /\ lastProbe.state = "DRAINING" => lastProbe.status # 200
  /\ exited => closeCalls > 0

\* C3: a request that entered metricsMiddleware and has been answered was
\* recorded exactly once.
C3_RecordedExactlyOnce == lastDone.entered => lastDone.recorded = 1

\* C4: whenever no request is outstanding the in-flight gauge is 0.
C4_GaugeZeroWhenIdle ==
  (\A c \in Conns : ~Outstanding(c)) => activeConnections = 0

\* C5: a request whose client aborted while the handler was pending is still
\* finalized unless the process exits first, and its finalization decrements
\* the in-flight gauge.
C5_AbortStillReleases ==
  /\ (\E c \in Conns : aborted[c] /\ Outstanding(c))
       ~> (exited \/ \A c \in Conns : ~(aborted[c] /\ Outstanding(c)))
  /\ [][\A c \in Conns :
          (aborted[c] /\ Outstanding(c) /\ ~Outstanding(c)')
             => activeConnections' < activeConnections]_vars

C5_Witness ==
  lastDone.aborted /\ lastDone.recorded = 1 /\ activeConnections = 0 /\ ~exited

\* C6: for every label triple the counter equals the number of responses sent
\* with that method, route and status.
C6_CounterMatchesResponses ==
  \A t \in DOMAIN httpRequestCounter \cup DOMAIN responses :
     Value(httpRequestCounter, t) = Value(responses, t)

\* C7: no response is sent for a request that did not pass through the
\* request observer.
C7_EveryResponseObserved == unobserved = 0

\* C8: the shutdown sequence is started at most once: server.close is called
\* at most once and at most one force-exit timer is armed.
C8_ShutdownOnce == closeCalls <= 1 /\ Len(timers) <= 1

\* C9: the process has exited with status 0 only if the 'close' event was
\* emitted and, when a telemetry client exists, flush was invoked and called back.
C9_ExitZeroAfterClose ==
  (exited /\ exitCode = 0) =>
     /\ closeReported
     /\ hasClient => (flushInvoked /\ flushCalledBack)

C9_Witness == exited /\ exitCode = 0 /\ hasClient /\ flushCalledBack /\ closeReported

\* C10: the first force-exit timer is due ForceTimeoutMs after the first
\* trigger; a draining process never lives past it, at the deadline the forced
\* exit is due whatever is in flight, and an exit with status 1 happens at
\* that deadline with draining incomplete.
C10_ForcedExitAtCeiling ==
  /\ timers # <<>> => timers[1] = ForceTimeoutMs
  /\ (~exited /\ timers # <<>>) => now <= timers[1]
  /\ (~exited /\ timers # <<>> /\ now = timers[1]) => TimerDue
  /\ (exited /\ exitCode = 1) => (now = timers[1] /\ ~DrainComplete)

C10_Witness ==
  /\ exited /\ exitCode = 1
  /\ \E c \in Conns : Outstanding(c)
  /\ Len(timers) > 1 /\ timers[Len(timers)] > timers[1]

\* a signal or a fatal fault (uncaught exception, unhandled rejection) has occurred
Triggered == closeCalls > 0 \/ rejections > 0

\* C11: after a shutdown trigger (signal or fatal fault) the process
\* eventually calls process.exit, whatever the requests in flight, the
\* listener and the flush do, given that the 'close' emit and the force-exit
\* timer run when they are due.
C11_EventuallyTerminated == Triggered ~> exited

C13_EveryTriggerDrains == Triggered => ShutdownState # "RUNNING"

\* C14: a flush that throws or never calls back does not block exit: once
\* flush has been invoked the process eventually exits, and a step that exits
\* with a non-zero status is the callback of a due force-exit timer.
C14_FlushFaultDoesNotBlock ==
  /\ flushInvoked ~> exited
  /\ [][(~exited /\ exited' /\ exitCode' # 0) => (TimerDue /\ exitCode' = 1)]_vars

C14_Witness ==
  /\ exited /\ exitCode = 1
  /\ hasClient /\ flushInvoked /\ ~flushCalledBack /\ ~flushPending
  /\ now = timers[1]

\* C15: every liveness probe answered between process start and process
\* exit, in RUNNING and in DRAINING, answers 200 with status "alive",
\* whatever the readiness answer and the rest of the state are.
C15_LivenessAlways ==
  /\ lastLive.state \in {"RUNNING", "DRAINING"} =>
        (lastLive.status = 200 /\ lastLive.body = "alive")
  /\ livenessProbe = [status |-> 200, body |-> "alive"]

C15_Witness ==
  /\ lastLive.state = "DRAINING" /\ lastLive.status = 200
  /\ lastProbe.state = "RUNNING"
  /\ now > 0

\* C16: serving a scrape changes no counter and no histogram value, so that
\* two scrapes with no other request between them report the same values.
C16_ScrapeReadsOnly ==
  [][\A c \in Conns :
       (phase[c] = "scrape" /\ phase'[c] = "none")
          => /\ httpRequestCounter' = httpRequestCounter
             /\ httpRequestDuration' = httpRequestDuration]_vars

RECURSIVE SumOver(_, _)
SumOver(f, S) ==
  IF S = {} THEN 0
  ELSE LET x == CHOOSE y \in S : TRUE
       IN f[x] + SumOver(f, S \ {x})

\* observations of the duration histogram, all label series together
TotalObservations == SumOver(httpRequestDuration, DOMAIN httpRequestDuration)

\* requests through metricsMiddleware whose handler is pending
NumOutstanding == Cardinality({c \in Conns : Outstanding(c)})

\* C17: with N requests received, the in-flight gauge is between 1 and N
\* while at least one request is outstanding, and once all have completed the
\* gauge is 0 and the histogram holds exactly N observations.
C17_NoLostUpdate ==
  /\ NumOutstanding >= 1 => (activeConnections >= 1 /\ activeConnections <= arrivals)
  /\ NumOutstanding = 0 => (activeConnections = 0 /\ TotalObservations = arrivals)

\* C18: the status and the arguments that reach the original res.end are
\* those the handler supplied, and a run of the observer changes nothing but
\* the metric instruments (and the response it hands on).
C18_ResponseUntouched ==
  /\ [](lastEnd.reachedStatus = lastEnd.status /\ lastEnd.reachedArgs = lastEnd.args)
  /\ [][lastEnd' # lastEnd =>
          UNCHANGED <<shutdownVars, conn, req, phase, aborted, lastProbe, lastLive>>]_vars

C18_Witness ==
  /\ lastEnd.status = 500 /\ lastEnd.reachedStatus = 500
  /\ Len(lastEnd.args) = 2 /\ lastEnd.reachedArgs = <<"{}", "utf8">>
  /\ Value(httpRequestCounter, lastEnd.series) > 0

\* C19: for every label series the exported bucket counts are non-decreasing
\* across ascending boundaries, the +Inf bucket equals the number of
\* observations of the series and is not below the last bucket, and each
\* observation is counted in exactly the buckets whose boundary is >= the value.
C19_CumulativeBuckets ==
  /\ [](\A t \in DOMAIN responses \cup DOMAIN httpRequestDuration \cup DOMAIN bucketValues :
          /\ InfExport(t) = Value(responses, t)
          /\ IF t \in DOMAIN bucketValues
             THEN /\ \A i \in 1..(Len(upperBounds) - 1) :
                       BucketExport(t, i) <= BucketExport(t, i + 1)
                  /\ BucketExport(t, Len(upperBounds)) <= InfExport(t)
             ELSE InfExport(t) = 0)
  /\ [][lastEnd' # lastEnd =>
          LET t == lastEnd'.series
              old(i) == Accumulate(Tally(bucketValues, t), i)
              new(i) == Accumulate(bucketValues'[t], i)
          IN \A i \in 1..Len(upperBounds) :
               new(i) - old(i) = IF upperBounds[i] >= lastEnd'.duration THEN 1 ELSE 0]_vars

C19_Witness ==
  \E t \in DOMAIN bucketValues :
    /\ InfExport(t) = 2
    /\ BucketExport(t, 5) = 1 /\ BucketExport(t, 4) = 0
    /\ BucketExport(t, Len(upperBounds)) = 1
    /\ lastEnd.duration = 100

\* C20: no series of gas_http_requests_total decreases from one state to the
\* next, whatever the step is (request, scrape, shutdown event).
C20_CounterNeverDecreases ==
  [][\/ httpRequestCounter' = httpRequestCounter
     \/ \A t \in DOMAIN httpRequestCounter :
          Value(httpRequestCounter', t) >= Value(httpRequestCounter, t)]_vars

C20_Witness ==
  /\ Value(httpRequestCounter, <<"GET", "/metrics", 200>>) >= 1
  /\ Value(httpRequestCounter, <<"GET", "/api/slow", 200>>) >= 1
  /\ closeCalls > 0 /\ lastDone.entered
  /\ exited


\* C21: the route label of a request is the pattern of the route that matched
\* it, whatever the spelling of the request path, and the request path only
\* when no route matched; a series whose label is not a registered pattern
\* holds 404 responses only.
C21_LabelIsPattern ==
  /\ lastEnd # NoEnd =>
       LET method == lastEnd.series[1]
           label == lastEnd.series[2]
       IN IF method = "GET" /\ Canonical(lastEnd.path) \in Routes
          THEN label \in Routes /\ label = Canonical(lastEnd.path)
          ELSE label = lastEnd.path /\ lastEnd.status = 404
  /\ \A t \in DOMAIN bucketValues : t[2] \notin Routes => t[3] = 404

\* a request spelled differently from its route was answered by it, and a
\* request without a route was answered too
C21_Witness ==
  /\ lastEnd.path \in VariantPaths
  /\ lastEnd.series = <<"GET", "/health/live", 200>>
  /\ Value(httpRequestCounter, <<"GET", "/health/live", 200>>) = 1
  /\ Value(httpRequestCounter, <<"GET", UnknownPath, 404>>) = 1

\* C22: an error confined to one request does not end the process. GET
\* /api/error is answered 500 with an error field and counts exactly once in
\* the series GET, /api/error, 500; a request without a route is answered
\* 404; a throwing handler is answered with a 5xx status; and no response
\* changes the shutdown state.
C22_RequestErrorConfined ==
  /\ [](errorHandler(ThrownMessage).status >= 500)
  /\ [](\A t \in DOMAIN responses : t[2] = UnknownPath => t[3] = 404)
  /\ [][LET t == <<"GET", "/api/error", 500>>
        IN /\ Value(responses', t) # Value(responses, t) =>
                /\ lastError'.status = 500
                /\ "error" \in lastError'.fields
                /\ Value(httpRequestCounter', t) = Value(httpRequestCounter, t) + 1
           /\ responses' # responses =>
                /\ ShutdownState' = ShutdownState
                /\ UNCHANGED <<listening, closeCalls, exited>>]_vars

\* the test endpoint and a path without a route were both requested, and the
\* process still runs
C22_Witness ==
  /\ Value(httpRequestCounter, <<"GET", "/api/error", 500>>) = 1
  /\ Value(responses, <<"GET", UnknownPath, 404>>) = 1
  /\ lastError.status = 404
  /\ ShutdownState = "RUNNING"
  /\ nodeEnv = "production"

\* C23: when register.metrics() fails, metricsHandler answers 500 with the
\* error text as body and records the request once; the shutdown state is
\* unchanged, the connection is free for the next request, and the other
\* endpoints are answered as before: the handlers of GET /health and GET /
\* with 200.
C23_ScrapeFailureConfined ==
  /\ [][\A c \in Conns :
          (phase[c] = "scrape" /\ req[c].fault = "metrics" /\ phase'[c] = "none") =>
             LET t == <<"GET", "/metrics", 500>>
             IN /\ lastError' = [status |-> 500, type |-> "text", fields |-> {},
                                 message |-> ThrownMessage]
                /\ Value(responses', t) = Value(responses, t) + 1
                /\ Value(httpRequestCounter', t) = Value(httpRequestCounter, t) + 1
                /\ activeConnections' = activeConnections - 1
                /\ conn'[c] # "busy"
                /\ ShutdownState' = ShutdownState
                /\ UNCHANGED <<listening, closeCalls, exited>>]_vars
  /\ [](Value(responses, <<"GET", "/metrics", 500>>) >= 1 =>
          /\ lastHealth # NoHealth => lastHealth.status = 200 /\ lastHealth.body = "healthy"
          /\ lastRoot # NoRoot => lastRoot.status = 200)

\* a scrape failed in register.metrics(), GET /health was answered, and the
\* process still runs
C23_Witness ==
  /\ Value(responses, <<"GET", "/metrics", 500>>) = 1
  /\ Value(responses, <<"GET", "/metrics", 200>>) = 0
  /\ lastError.type = "text"
  /\ lastDone.recorded = 1
  /\ lastHealth.status = 200
  /\ ShutdownState = "RUNNING"

\* C24: every response with a status of 400 or more is a JSON document with
\* the fields error, message and timestamp, and under NODE_ENV = production
\* the message of a 500 response never carries the text of the error thrown.
C24_ErrorBodyShape ==
  lastError # NoError =>
    /\ lastError.status >= 400
    /\ lastError.type = "json"
    /\ ErrorFields \subseteq lastError.fields
    /\ (nodeEnv = "production" /\ lastError.status = 500) =>
          lastError.message # ThrownMessage

\* C25: a start that fails on its configuration (a port that cannot be used,
\* an instrument name registered twice) is fatal: the server never listens,
\* and when the process has exited its status is not 0.
C25_StartupFailureFatal ==
  boot \in {"crashed", "refused", "failed"} =>
    /\ ~listening
    /\ exited => exitCode # 0

\* C26: the names of the registered instruments are pairwise distinct; a
\* scrape holds exactly one TYPE line for every instrument, the lines follow
\* the order of registration, and every scrape holds the same lines in the
\* same order.
C26_OneTypeLinePerInstrument ==
  /\ [](\A i, j \in 1..Len(registry) : i # j => registry[i].name # registry[j].name)
  /\ [](lastTypes # <<>> =>
          /\ \A i \in 1..Len(Registrations) :
                Cardinality({k \in 1..Len(lastTypes) :
                               lastTypes[k][2] = Registrations[i].name}) = 1
          /\ Len(lastTypes) = Len(Registrations)
          /\ \A k \in 1..Len(lastTypes) :
                lastTypes[k] = <<"# TYPE", Registrations[k].name, Registrations[k].type>>)
  /\ [][lastTypes # <<>> => lastTypes' = lastTypes]_vars

\* the process was started from its first registration and has answered two
\* scrapes
C26_Witness ==
  /\ boot = "serving"
  /\ Len(lastTypes) = Len(Registrations)
  /\ Value(responses, <<"GET", "/metrics", 200>>) = 2

\* C27: answering a probe (health check, liveness, readiness) changes neither
\* the shutdown state nor the readiness predicate; the step from RUNNING to
\* DRAINING is always a call of gracefulShutdown and never a request.
C27_ProbesReadOnly ==
  /\ [][arrivals' # arrivals =>
          /\ ShutdownState' = ShutdownState
          /\ UNCHANGED shutdownVars
          /\ isReady' = isReady
          /\ readinessProbe' = readinessProbe]_vars
  /\ [][(ShutdownState = "RUNNING" /\ ShutdownState' = "DRAINING") =>
          /\ arrivals' = arrivals
          /\ closeCalls' = closeCalls + 1
          /\ ~listening'
          /\ Len(timers') = Len(timers) + 1]_vars

\* a health check and a readiness probe were answered, and the process is
\* still in RUNNING
C27_Witness ==
  /\ lastHealth.state = "RUNNING"
  /\ lastProbe.state = "RUNNING" /\ lastProbe.status = 200
  /\ arrivals = 2
  /\ ShutdownState = "RUNNING"

\* C28: GET /health answers 200 with status "healthy" on every invocation,
\* in RUNNING and in DRAINING: the handler has no failing branch.
C28_HealthAlwaysHealthy ==
  /\ lastHealth.state \in {"RUNNING", "DRAINING"} =>
        (lastHealth.status = 200 /\ lastHealth.body = "healthy")
  /\ \A t \in DOMAIN responses : t[2] = "/health" => t[3] = 200
  /\ healthCheck = [status |-> 200, body |-> "healthy"]

\* a health check was answered in RUNNING and another one in DRAINING
C28_Witness ==
  /\ lastHealth.state = "DRAINING" /\ lastHealth.status = 200
  /\ Value(responses, <<"GET", "/health", 200>>) = 2
  /\ closeCalls = 1

\* C29: the deploymentType GET / reports is one of stable, canary, blue,
\* green, staging, whatever DEPLOYMENT_TYPE is set to, unset included.
C29_DeploymentTypeKnown ==
  lastRoot # NoRoot =>
    /\ lastRoot.status = 200
    /\ lastRoot.deploymentType \in {"stable", "canary", "blue", "green", "staging"}

\* C30: a request whose Content-Length is N adds exactly one observation of N
\* to the request-size series of its method and route, a response whose
\* Content-Length is M adds exactly one observation of M to the response-size
\* series of its method, route and status, a length of 0 included; without
\* the header nothing is observed.
C30_SizesObserved ==
  [][arrivals' # arrivals =>
       LET t == lastEnd'.series
           q == lastEnd'.requestLength
           r == lastEnd'.responseLength
           added(f, g, x) == [count |-> Size(g, x).count - Size(f, x).count,
                              sum |-> Size(g, x).sum - Size(f, x).sum]
       IN /\ added(httpRequestSize, httpRequestSize', <<t[1], t[2]>>) =
               IF q = Absent THEN NoSize ELSE [count |-> 1, sum |-> q]
          /\ added(httpResponseSize, httpResponseSize', t) =
               IF r = Absent THEN NoSize ELSE [count |-> 1, sum |-> r]]_vars

\* C31: the deployment gauge carries the configured DEPLOYMENT_TYPE string
\* unchanged as its label, and that label is the deploymentType GET /
\* reports.
C31_GaugeLabelVerbatim ==
  lastRoot # NoRoot =>
    /\ deploymentType.type = lastRoot.deploymentType
    /\ deploymentEnv \notin {Unset, ""} => deploymentType.type = deploymentEnv

\* C32: the in-flight gauge gas_active_connections is never below 0,
\* whatever requests were started, finalized (once or repeatedly) or aborted.
C32_GaugeNeverNegative == activeConnections >= 0

\* C33: in every reachable state, those a pending scrape can read included,
\* the value of gas_http_requests_total equals the observation count of
\* gas_http_request_duration_seconds for every label triple.
C33_CounterMatchesHistogram ==
  \A t \in DOMAIN httpRequestCounter \cup DOMAIN httpRequestDuration :
     Value(httpRequestCounter, t) = Value(httpRequestDuration, t)

\* a scrape is pending at its await after another request was recorded
C33_Witness ==
  /\ \E c \in Conns : phase[c] = "scrape"
  /\ Value(httpRequestCounter, <<"GET", "/api/slow", 200>>) = 1
  /\ Value(httpRequestDuration, <<"GET", "/api/slow", 200>>) = 1

\* C34: a trigger received while draining leaves the earliest force-exit
\* deadline where the first trigger put it and does not end the process
\* itself; the forced exit happens ForceTimeoutMs after the first trigger
\* however many triggers followed, and no exit with status 0 happens before
\* the 'close' event was emitted.
C34_LaterTriggersChangeNothing ==
  /\ [][(closeCalls > 0 /\ closeCalls' > closeCalls) =>
          /\ timers'[1] = timers[1]
          /\ Min(Deadlines') = Min(Deadlines)
          /\ Len(timers') = Len(timers) + 1
          /\ now' = now
          /\ UNCHANGED <<exited, exitCode>>]_vars
  /\ [][(~exited /\ exited') =>
          IF exitCode' = 0 THEN closeReported'
          ELSE exitCode' = 1 /\ now' = ForceTimeoutMs]_vars
  /\ []((~exited /\ timers # <<>>) => now <= ForceTimeoutMs)

\* a second trigger came when the first deadline had been reached, and the
\* forced exit still happened at the first deadline
C34_Witness ==
  /\ closeCalls = 2
  /\ timers = <<ForceTimeoutMs, 2 * ForceTimeoutMs>>
  /\ exited /\ exitCode = 1
  /\ now = ForceTimeoutMs

\* the two samples of the scrape body the handler obtains from
\* register.metrics() while its request is in flight: the values the
\* instruments hold at that moment
metricsBody ==
  [gas_active_connections |-> activeConnections,
   scrapes |-> Value(httpRequestCounter, <<"GET", RouteLabel("GET", "/metrics"), 200>>)]

ScrapePending == \E c \in Conns : phase[c] = "scrape"

\* C35: whenever a GET /metrics is in flight the body it would serve shows
\* gas_active_connections >= 1, and the {GET, /metrics, 200} series of that
\* body is one less than the series after the scrape was answered with 200.
C35_ScrapeSeesItselfInFlight ==
  /\ [](ScrapePending => metricsBody.gas_active_connections >= 1)
  /\ [][\A c \in Conns :
          (phase[c] = "scrape" /\ phase'[c] # "scrape" /\ req[c].fault # "metrics") =>
             metricsBody'.scrapes = metricsBody.scrapes + 1]_vars

\* C36: a GET /metrics in flight is finalized by exactly one call of res.end,
\* whichever way the handler fails.
C36_ScrapeFinalizedOnce ==
  \A c \in Conns : phase[c] = "scrape" => Len(ScrapeEnds(req[c].fault)) = 1

\* C37: the result of formatUptime lists its parts in the order d, h, m, s,
\* each unit at most once and the seconds part last; a listed days, hours or
\* minutes part is not 0, hours < 24, minutes < 60, seconds < 60, and with the
\* unlisted parts taken as 0 the parts recompose to the seconds formatted.
C37_FormatUptimeParts ==
  formatted # <<>> =>
    LET rank == [u \in {"d", "h", "m", "s"} |->
                   CASE u = "d" -> 1 [] u = "h" -> 2 [] u = "m" -> 3 [] u = "s" -> 4]
        amount(u) == IF \E i \in DOMAIN formatted : formatted[i].unit = u
                     THEN formatted[CHOOSE i \in DOMAIN formatted : formatted[i].unit = u].n
                     ELSE 0
    IN /\ \A i \in DOMAIN formatted : formatted[i].unit \in DOMAIN rank
       /\ \A i, j \in DOMAIN formatted :
             i < j => rank[formatted[i].unit] < rank[formatted[j].unit]
       /\ formatted[Len(formatted)].unit = "s"
       /\ \A i \in DOMAIN formatted : formatted[i].unit # "s" => formatted[i].n > 0
       /\ amount("d") >= 0
       /\ amount("h") \in 0..23
       /\ amount("m") \in 0..59
       /\ amount("s") \in 0..59
       /\ amount("d") * 86400 + amount("h") * 3600 + amount("m") * 60 + amount("s") = uptime

\* a day and a minute: the hours part is left out, the seconds part is
\* listed though it is 0
C37_Witness ==
  /\ uptime = 86460
  /\ formatted = <<[n |-> 1, unit |-> "d"], [n |-> 1, unit |-> "m"], [n |-> 0, unit |-> "s"]>>
====
